---- MODULE Spec2Model ----
(***************************************************************************)
(* Delivery planning over a road graph: A* path search, the capacity-aware *)
(* route cost walk (graph based and matrix based) and the greedy planner.  *)
(*                                                                         *)
(* Numbers.  Node ids are strings in the program and are compared by the   *)
(* heap as the second component of (f, node) tuples; here they are the     *)
(* integers 1..NumNodes with the same role of a total order.  Travel times *)
(* are floats in the program; here lengths, speed limits and coordinates   *)
(* are integers chosen so that every division is exact, and a cost is a    *)
(* record [inf, big, val]: +infinity when inf, else big*10^18 + val.       *)
(***************************************************************************)
EXTENDS Integers, Sequences, FiniteSets, TLC

VARIABLES graph, astar, walk, mwalk, dcost, greedy, group, sim, pure

vars == <<graph, astar, walk, mwalk, dcost, greedy, group, sim, pure>>

(***************************************************************************)
(* Bounds of the explored inputs.                                          *)
(***************************************************************************)
MaxLen == 3
MaxCoord == 2
MaxCap == 2
MaxDemand == 2
MaxStops == 2
MaxVehicles == 2
MaxIters == 2

\* The road slots of the explored graphs: the node pairs add_edge is called
\* on, in this order.
RoadSlots == <<<<1, 2>>, <<3, 2>>, <<2, 4>>, <<3, 4>>>>

Nodes == UNION {{RoadSlots[i][1], RoadSlots[i][2]} : i \in 1..Len(RoadSlots)}

NumNodes == Cardinality(Nodes)

Abs(n) == IF n < 0 THEN -n ELSE n

Last(s) == s[Len(s)]

(***************************************************************************)
(* Costs: Python floats that may be float("inf"), and sums that may hold   *)
(* multiples of the integer sentinel INF = 10**18.                         *)
(***************************************************************************)
Fin(n) == [inf |-> FALSE, big |-> 0, val |-> n]

FloatInf == [inf |-> TRUE, big |-> 0, val |-> 0]

\* INF = 10**18 of grouping_monte_carlo.py.
INF == [inf |-> FALSE, big |-> 1, val |-> 0]

Add(a, b) ==
    IF a.inf \/ b.inf THEN FloatInf
    ELSE [inf |-> FALSE, big |-> a.big + b.big, val |-> a.val + b.val]

Lt(a, b) ==
    IF a.inf THEN FALSE
    ELSE IF b.inf THEN TRUE
    ELSE a.big < b.big \/ (a.big = b.big /\ a.val < b.val)

Le(a, b) == a = b \/ Lt(a, b)

(***************************************************************************)
(* city/graph.py                                                           *)
(***************************************************************************)
Edge(s, d, len, speed) ==
    [src |-> s, dst |-> d, length |-> len, speed_limit |-> speed]

base_travel_time(e) == e.length \div e.speed_limit

EmptyGraph(xs) == [x |-> xs, adj |-> [n \in Nodes |-> <<>>]]

add_edge(g, s, d, len, speed, bidirectional) ==
    LET one == [g.adj EXCEPT ![s] = Append(@, Edge(s, d, len, speed))]
        two == IF bidirectional
               THEN [one EXCEPT ![d] = Append(@, Edge(d, s, len, speed))]
               ELSE one
    IN [g EXCEPT !.adj = two]

neighbors(g, n) == g.adj[n]

RECURSIVE SeqMaxSpeed(_, _, _)
SeqMaxSpeed(edges, i, acc) ==
    IF i > Len(edges) THEN acc
    ELSE SeqMaxSpeed(edges, i + 1,
                     IF edges[i].speed_limit > acc THEN edges[i].speed_limit ELSE acc)

RECURSIVE max_speed_from(_, _, _)
max_speed_from(g, n, acc) ==
    IF n > NumNodes THEN acc
    ELSE max_speed_from(g, n + 1, SeqMaxSpeed(g.adj[n], 1, acc))

max_speed_limit(g) == max_speed_from(g, 1, 1)

\* Nodes lie on the x axis, so hypot(dx, dy) is |dx|.
heuristic_time(g, a, b) == Abs(g.x[a] - g.x[b]) \div max_speed_limit(g)

(***************************************************************************)
(* algorithms/a_star.py                                                    *)
(***************************************************************************)
NoPath == <<>>

\* heapq orders (f, node) tuples lexicographically.
TupleLess(p, q) == p[1] < q[1] \/ (p[1] = q[1] /\ p[2] < q[2])

heappop(open_set) ==
    CHOOSE p \in open_set : \A q \in open_set : p = q \/ TupleLess(p, q)

Put(f, k, v) == [n \in DOMAIN f \cup {k} |-> IF n = k THEN v ELSE f[n]]

RECURSIVE _reconstruct_path(_, _, _, _)
_reconstruct_path(came_from, start, cur, rev) ==
    IF cur = start THEN rev
    ELSE _reconstruct_path(came_from, start, came_from[cur], <<came_from[cur]>> \o rev)

AStarCall(s, g) ==
    [pc |-> "entry", start |-> s, goal |-> g, open_set |-> {},
     came_from |-> <<>>, g_score |-> <<>>, closed |-> {},
     path |-> NoPath, cost |-> Fin(0), explored |-> 0, iters |-> 0, rewrites |-> 0]

\* The entry without the start == goal test.
AStarEntryNoShortcut(a) ==
    [a EXCEPT !.pc = "loop",
              !.open_set = {<<0, a.start>>},
              !.g_score = Put(<<>>, a.start, 0)]

\* Lines 31-39: the trivial return, else the first push.
AStarEntry(a) ==
    IF a.start = a.goal
    THEN [a EXCEPT !.pc = "done", !.path = <<a.start>>, !.cost = Fin(0)]
    ELSE [a EXCEPT !.pc = "loop",
                   !.open_set = {<<0, a.start>>},
                   !.g_score = Put(<<>>, a.start, 0)]

\* The relaxation with the heap key taken from the heuristic alone.
RelaxKeyWithoutG(g, a, current, edge) ==
    LET neighbor == edge.dst
        tentative_g == a.g_score[current] + base_travel_time(edge)
    IN IF neighbor \in DOMAIN a.g_score /\ tentative_g >= a.g_score[neighbor]
       THEN [a EXCEPT !.explored = @ + 1]
       ELSE [a EXCEPT !.explored = @ + 1,
                      !.rewrites = @ + (IF neighbor \in a.closed THEN 1 ELSE 0),
                      !.came_from = Put(@, neighbor, current),
                      !.g_score = Put(@, neighbor, tentative_g),
                      !.open_set = @ \cup
                          {<<heuristic_time(g, neighbor, a.goal), neighbor>>}]

\* Lines 51-59: one edge of the for loop.
Relax(g, a, current, edge) ==
    LET neighbor == edge.dst
        tentative_g == a.g_score[current] + base_travel_time(edge)
    IN IF neighbor \in DOMAIN a.g_score /\ tentative_g >= a.g_score[neighbor]
       THEN [a EXCEPT !.explored = @ + 1]
       ELSE [a EXCEPT !.explored = @ + 1,
                      !.rewrites = @ + (IF neighbor \in a.closed THEN 1 ELSE 0),
                      !.came_from = Put(@, neighbor, current),
                      !.g_score = Put(@, neighbor, tentative_g),
                      !.open_set = @ \cup
                          {<<tentative_g + heuristic_time(g, neighbor, a.goal), neighbor>>}]

RECURSIVE RelaxAll(_, _, _, _, _)
RelaxAll(g, a, current, edges, i) ==
    IF i > Len(edges) THEN a
    ELSE RelaxAll(g, Relax(g, a, current, edges[i]), current, edges, i + 1)

\* The final return with a zero cost.
AStarNoPathZero(a) == [a EXCEPT !.pc = "done", !.path = NoPath, !.cost = Fin(0)]

\* Line 61: the open set ran empty.
AStarNoPath(a) == [a EXCEPT !.pc = "done", !.path = NoPath, !.cost = FloatInf]

\* Lines 41-61: one turn of the while loop, or the return after it.
AStarLoop(g, a) ==
    IF a.open_set = {}
    THEN AStarNoPath(a)
    ELSE LET top == heappop(a.open_set)
             current == top[2]
             popped == [a EXCEPT !.open_set = @ \ {top}, !.iters = @ + 1]
         IN IF current \in a.closed THEN popped
            ELSE IF current = a.goal
            THEN [popped EXCEPT
                     !.pc = "done",
                     !.path = _reconstruct_path(a.came_from, a.start, a.goal, <<a.goal>>),
                     !.cost = Fin(a.g_score[current])]
            ELSE RelaxAll(g, [popped EXCEPT !.closed = @ \cup {current}],
                          current, neighbors(g, current), 1)

AStarStep(g, a) == IF a.pc = "entry" THEN AStarEntry(a) ELSE AStarLoop(g, a)

RECURSIVE AStarRun(_, _)
AStarRun(g, a) == IF a.pc = "done" THEN a ELSE AStarRun(g, AStarStep(g, a))

\* The call as its callers see it: [path, cost].
astar_shortest_path(g, s, d) == AStarRun(g, AStarCall(s, d))

(***************************************************************************)
(* The graphs explored.  A graph of the family fills each road slot with   *)
(* no road or a road of length 1..MaxLen at speed limit 1, all one-way or  *)
(* all bidirectional, with add_edge called in slot order.                  *)
(***************************************************************************)
RECURSIVE BuildRoads(_, _, _, _)
BuildRoads(g, fill, bidir, i) ==
    IF i > Len(RoadSlots) THEN g
    ELSE BuildRoads(
           IF fill[i] = 0 THEN g
           ELSE add_edge(g, RoadSlots[i][1], RoadSlots[i][2], fill[i], 1, bidir),
           fill, bidir, i + 1)

Layouts == {xs \in [Nodes -> {0, MaxCoord}] : xs[1] = 0 /\ xs[NumNodes] = 0}

Graphs ==
    {BuildRoads(EmptyGraph(xs), fill, bidir, 1) :
        xs \in Layouts,
        fill \in [1..Len(RoadSlots) -> 0..MaxLen],
        bidir \in BOOLEAN}

\* The graphs the route walks and the planners are run on: road 1-2 present
\* or not, road 2-4 short or long, nodes level or node 3 set apart.
RouteFills ==
    {[i \in 1..Len(RoadSlots) |-> IF i = 3 THEN len ELSE IF i = 1 THEN first ELSE 1] :
        len \in {1, MaxLen}, first \in {0, 1}}

RouteLayouts == {[n \in Nodes |-> IF n = 3 THEN c ELSE 0] : c \in {0, MaxCoord}}

RouteGraphs ==
    {BuildRoads(EmptyGraph(xs), fill, bidir, 1) :
        xs \in RouteLayouts, fill \in RouteFills, bidir \in BOOLEAN}

\* astar_shortest_path is a function of (graph, start, goal) alone: its
\* results on the graphs the walks run on, computed once.
\* Every road at length 1 and road 2-4 laid a second time with another
\* length: two parallel edges, the slow one first or the fast one first.
ParallelGraphs ==
    {add_edge(BuildRoads(EmptyGraph([n \in Nodes |-> 0]),
                         [i \in 1..Len(RoadSlots) |-> IF i = 3 THEN first ELSE 1],
                         bidir, 1),
              RoadSlots[3][1], RoadSlots[3][2],
              IF first = 1 THEN MaxLen ELSE 1, 1, bidir) :
        first \in {1, MaxLen}, bidir \in BOOLEAN}

WalkGraphs == RouteGraphs \cup ParallelGraphs

LegTable ==
    [g \in WalkGraphs |->
        [a \in Nodes |-> [b \in Nodes |-> astar_shortest_path(g, a, b)]]]

Leg(g, a, b) == LegTable[g][a][b]

(***************************************************************************)
(* domain/models.py                                                        *)
(***************************************************************************)
Vehicle(id, capacity, start_node) ==
    [id |-> id, capacity |-> capacity, start_node |-> start_node]

DeliveryRequest(id, node, demand) == [id |-> id, node |-> node, demand |-> demand]

(***************************************************************************)
(* algorithms/basic.py: GreedyVRPPlanner._route_cost                       *)
(***************************************************************************)
RouteCall(vehicle, stops, depot, return_to_depot) ==
    [pc |-> "entry", vehicle |-> vehicle, stops |-> stops, depot |-> depot,
     return_to_depot |-> return_to_depot,
     cur |-> vehicle.start_node, t |-> Fin(0), cap_left |-> 0, i |-> 1,
     cost |-> Fin(0), legs |-> <<>>, resets |-> 0]

RouteReturn(w, c) == [w EXCEPT !.pc = "done", !.cost = c]

\* Lines 38-44.
RouteEntry(w) ==
    IF w.vehicle.capacity <= 0 THEN RouteReturn(w, FloatInf)
    ELSE [w EXCEPT !.pc = "loop", !.cap_left = w.vehicle.capacity]

\* The overflow test taken as cap_left <= demand.
RouteOverflowOffByOne(cap_left, demand) == cap_left <= demand

\* Line 52.
RouteOverflow(cap_left, demand) == cap_left < demand

\* Lines 52-59: the return to the depot before a stop that does not fit.
\* A reload that forgets to charge the return leg.
RouteReloadFree(g, w) ==
    [w EXCEPT !.cur = w.depot, !.cap_left = w.vehicle.capacity, !.resets = @ + 1]

RouteReload(g, w) ==
    IF w.cur # w.depot
    THEN LET back == Leg(g, w.cur, w.depot)
         IN IF back.path = NoPath THEN RouteReturn(w, FloatInf)
            ELSE [w EXCEPT !.t = Add(@, back.cost), !.cur = w.depot,
                           !.legs = Append(@, <<w.cur, w.depot>>),
                           !.cap_left = w.vehicle.capacity, !.resets = @ + 1]
    ELSE [w EXCEPT !.cap_left = w.vehicle.capacity, !.resets = @ + 1]

\* The leg to the stop with +infinity taken as an ordinary travel time.
RouteGoNoPathTest(g, w, req) ==
    LET go == Leg(g, w.cur, req.node)
    IN [w EXCEPT !.t = IF go.path = NoPath THEN @ ELSE Add(@, go.cost),
                 !.cur = req.node,
                 !.legs = Append(@, <<w.cur, req.node>>),
                 !.cap_left = @ - req.demand, !.i = @ + 1]

\* Lines 61-67: the leg to the stop.
RouteGo(g, w, req) ==
    LET go == Leg(g, w.cur, req.node)
    IN IF go.path = NoPath THEN RouteReturn(w, FloatInf)
       ELSE [w EXCEPT !.t = Add(@, go.cost), !.cur = req.node,
                      !.legs = Append(@, <<w.cur, req.node>>),
                      !.cap_left = @ - req.demand, !.i = @ + 1]

\* Lines 46-67: one turn of the for loop.
RouteStop(g, w) ==
    LET req == w.stops[w.i]
    IN IF req.demand <= 0 THEN RouteReturn(w, FloatInf)
       ELSE LET home == IF RouteOverflow(w.cap_left, req.demand)
                        THEN RouteReload(g, w) ELSE w
            IN IF home.pc = "done" THEN home ELSE RouteGo(g, home, req)

\* Lines 69-76: the return home and the result.
RouteFinish(g, w) ==
    IF w.return_to_depot /\ w.cur # w.depot
    THEN LET back == Leg(g, w.cur, w.depot)
         IN IF back.path = NoPath THEN RouteReturn(w, FloatInf)
            ELSE RouteReturn([w EXCEPT !.t = Add(@, back.cost),
                                       !.legs = Append(@, <<w.cur, w.depot>>)],
                             Add(w.t, back.cost))
    ELSE RouteReturn(w, w.t)

RouteStep(g, w) ==
    IF w.pc = "entry" THEN RouteEntry(w)
    ELSE IF w.i <= Len(w.stops) THEN RouteStop(g, w)
    ELSE RouteFinish(g, w)

RECURSIVE RouteRun(_, _)
RouteRun(g, w) == IF w.pc = "done" THEN w ELSE RouteRun(g, RouteStep(g, w))

_route_cost(g, vehicle, stops, depot, return_to_depot) ==
    RouteRun(g, RouteCall(vehicle, stops, depot, return_to_depot)).cost

(***************************************************************************)
(* algorithms/grouping_monte_carlo.py: the distance matrix and route_time  *)
(***************************************************************************)
_compute_time(g, src, dst) ==
    IF src = dst THEN Fin(0)
    ELSE LET r == Leg(g, src, dst)
         IN IF r.path = NoPath THEN INF ELSE r.cost

\* Lines 34-40: the two nested loops over nodes, pair number p of n * n.
RECURSIVE PrecomputeLoop(_, _, _, _)
PrecomputeLoop(g, nodes, p, dist) ==
    LET n == Len(nodes)
        a == nodes[((p - 1) \div n) + 1]
        b == nodes[((p - 1) % n) + 1]
    IN IF p > n * n THEN dist
       ELSE IF <<a, b>> \in DOMAIN dist
       THEN PrecomputeLoop(g, nodes, p + 1, dist)
       ELSE LET t == _compute_time(g, a, b)
            IN PrecomputeLoop(g, nodes, p + 1, Put(Put(dist, <<a, b>>, t), <<b, a>>, t))

precompute_distances(g, depot, requests) ==
    PrecomputeLoop(g, <<depot>> \o [i \in 1..Len(requests) |-> requests[i].node], 1, <<>>)

TimeCall(depot, stops, requests, vehicle_capacity) ==
    [pc |-> "precompute", depot |-> depot, stops |-> stops, requests |-> requests,
     vehicle_capacity |-> vehicle_capacity, dist |-> <<>>,
     total |-> Fin(0), cur |-> depot, cap_left |-> 0, i |-> 1, cost |-> Fin(0)]

TimeReturn(m, c) == [m EXCEPT !.pc = "done", !.cost = c]

\* Line 229 of build_plan: the matrix route_time is given.
TimePrecompute(g, m) ==
    [m EXCEPT !.pc = "entry", !.dist = precompute_distances(g, m.depot, m.requests)]

\* Lines 56-63.
TimeEntry(m) ==
    IF m.stops = <<>> THEN TimeReturn(m, Fin(0))
    ELSE IF m.vehicle_capacity <= 0 THEN TimeReturn(m, INF)
    ELSE [m EXCEPT !.pc = "loop", !.cap_left = m.vehicle_capacity]

\* Lines 65-80: one turn of the for loop.
TimeStop(m) ==
    LET r == m.stops[m.i]
    IN IF r.demand <= 0 THEN TimeReturn(m, INF)
       ELSE LET home == IF m.cap_left < r.demand
                        THEN [m EXCEPT !.total = IF m.cur # m.depot
                                                 THEN Add(@, m.dist[<<m.cur, m.depot>>])
                                                 ELSE @,
                                       !.cur = m.depot,
                                       !.cap_left = m.vehicle_capacity]
                        ELSE m
            IN [home EXCEPT !.total = Add(@, home.dist[<<home.cur, r.node>>]),
                            !.cur = r.node,
                            !.cap_left = @ - r.demand,
                            !.i = @ + 1]

\* A finish that leaves the vehicle at its last stop.
TimeFinishNoReturn(m) == TimeReturn(m, m.total)

\* Lines 82-86.
TimeFinish(m) ==
    IF m.cur # m.depot
    THEN TimeReturn(m, Add(m.total, m.dist[<<m.cur, m.depot>>]))
    ELSE TimeReturn(m, m.total)

TimeStep(g, m) ==
    IF m.pc = "precompute" THEN TimePrecompute(g, m)
    ELSE IF m.pc = "entry" THEN TimeEntry(m)
    ELSE IF m.i <= Len(m.stops) THEN TimeStop(m)
    ELSE TimeFinish(m)

RECURSIVE TimeRun(_, _)
TimeRun(g, m) == IF m.pc = "done" THEN m ELSE TimeRun(g, TimeStep(g, m))

route_time(depot, stops, dist, vehicle_capacity) ==
    TimeRun(EmptyGraph(<<>>),
            [TimeCall(depot, stops, <<>>, vehicle_capacity)
                EXCEPT !.pc = "entry", !.dist = dist]).cost

(***************************************************************************)
(* algorithms/mcts.py: MonteCarloVRPPlanner._deterministic_cost            *)
(***************************************************************************)
VehicleRoute(vehicle_id, stops) == [vehicle_id |-> vehicle_id, stops |-> stops]

Plan(depot, routes) == [depot |-> depot, routes |-> routes]

PlanCost(plan, total_time) == [plan |-> plan, total_time |-> total_time]

\* v_index[vid]
VehicleById(vehicles, vid) ==
    vehicles[CHOOSE k \in 1..Len(vehicles) : vehicles[k].id = vid]

\* Lines 68-89: the stops of one route from stop i on; the walk state
\* [ok, t, cur, cap_left], not ok when the function returns +infinity.
RECURSIVE DetStops(_, _, _, _, _, _)
DetStops(g, depot, cap, stops, i, st) ==
    IF i > Len(stops) \/ ~st.ok THEN st
    ELSE LET req == stops[i]
             needBack == st.cap_left < req.demand /\ st.cur # depot
             back == Leg(g, st.cur, depot)
             home == IF st.cap_left < req.demand
                     THEN [st EXCEPT !.t = IF needBack THEN Add(@, back.cost) ELSE @,
                                     !.cur = depot, !.cap_left = cap]
                     ELSE st
             go == Leg(g, home.cur, req.node)
         IN IF req.demand <= 0 THEN [st EXCEPT !.ok = FALSE]
            ELSE IF needBack /\ back.path = NoPath THEN [st EXCEPT !.ok = FALSE]
            ELSE IF go.path = NoPath THEN [st EXCEPT !.ok = FALSE]
            ELSE DetStops(g, depot, cap, stops, i + 1,
                          [home EXCEPT !.t = Add(@, go.cost), !.cur = req.node,
                                       !.cap_left = @ - req.demand])

\* Lines 58-98: the routes of the plan from route k on.
RECURSIVE DetRoutes(_, _, _, _, _, _)
DetRoutes(g, vehicles, plan, return_to_depot, k, total_time) ==
    IF k > Len(plan.routes) THEN PlanCost(plan, total_time)
    ELSE LET route == plan.routes[k]
             v == VehicleById(vehicles, route.vehicle_id)
             st == DetStops(g, plan.depot, v.capacity, route.stops, 1,
                            [ok |-> TRUE, t |-> Fin(0), cur |-> v.start_node,
                             cap_left |-> v.capacity])
             back == Leg(g, st.cur, plan.depot)
         IN IF v.capacity <= 0 THEN PlanCost(plan, FloatInf)
            ELSE IF ~st.ok THEN PlanCost(plan, FloatInf)
            ELSE IF return_to_depot /\ st.cur # plan.depot
            THEN IF back.path = NoPath THEN PlanCost(plan, FloatInf)
                 ELSE DetRoutes(g, vehicles, plan, return_to_depot, k + 1,
                                Add(total_time, Add(st.t, back.cost)))
            ELSE DetRoutes(g, vehicles, plan, return_to_depot, k + 1,
                           Add(total_time, st.t))

_deterministic_cost(g, vehicles, plan, return_to_depot) ==
    DetRoutes(g, vehicles, plan, return_to_depot, 1, Fin(0))

(***************************************************************************)
(* algorithms/basic.py: GreedyVRPPlanner.build_plan                        *)
(***************************************************************************)
PlanCall(depot, vehicles, requests) ==
    [pc |-> "check", depot |-> depot, vehicles |-> vehicles, requests |-> requests,
     remaining |-> <<>>, routes |-> <<>>, total_time |-> Fin(0),
     iters |-> 0, calls |-> 0, chosen |-> <<>>]

\* The test with the boundary on the wrong side.
NoVehicleFitsOrEqual(vehicles, demand) ==
    \A k \in 1..Len(vehicles) : vehicles[k].capacity <= demand

\* Line 88: all(v.capacity < demand for v in vehicles)
NoVehicleFits(vehicles, demand) ==
    \A k \in 1..Len(vehicles) : vehicles[k].capacity < demand

\* Lines 95-97: a dict keyed by vehicle id.
RECURSIVE EmptyRoutes(_, _, _)
EmptyRoutes(vehicles, k, routes) ==
    IF k > Len(vehicles) THEN routes
    ELSE EmptyRoutes(vehicles, k + 1, Put(routes, vehicles[k].id, <<>>))

\* Lines 85-97.
PlanCheck(p) ==
    IF \E i \in 1..Len(p.requests) : NoVehicleFits(p.vehicles, p.requests[i].demand)
    THEN [p EXCEPT !.pc = "raised"]
    ELSE [p EXCEPT !.pc = "loop", !.remaining = p.requests,
                   !.routes = EmptyRoutes(p.vehicles, 1, <<>>)]

\* A candidate test that lets every vehicle take every request.
CandidateAlways(v, demand) == TRUE

\* Lines 106-107.
Candidate(v, demand) == ~(v.capacity < demand)

\* Lines 102-112: the pairs (request, vehicle), pair number q of the
\* enumeration with the requests outside and the vehicles inside.
RECURSIVE BestChoice(_, _, _, _)
BestChoice(g, p, q, best) ==
    LET nv == Len(p.vehicles)
        req == p.remaining[((q - 1) \div nv) + 1]
        v == p.vehicles[((q - 1) % nv) + 1]
        cost == _route_cost(g, v, Append(p.routes[v.id], req), p.depot, TRUE)
    IN IF q > Len(p.remaining) * nv THEN best
       ELSE IF ~Candidate(v, req.demand) THEN BestChoice(g, p, q + 1, best)
       ELSE IF best.none \/ Lt(cost, best.cost)
       THEN BestChoice(g, p, q + 1,
                       [none |-> FALSE, vid |-> v.id, req |-> req, cost |-> cost,
                        calls |-> best.calls + 1])
       ELSE BestChoice(g, p, q + 1, [best EXCEPT !.calls = @ + 1])

\* A removal that takes every equal element.
RemoveAll(seq, x) == SelectSeq(seq, LAMBDA y : y # x)

\* list.remove: the first equal element goes.
Remove(seq, x) ==
    LET k == CHOOSE i \in 1..Len(seq) :
                 seq[i] = x /\ \A j \in 1..(i - 1) : seq[j] # x
    IN [i \in 1..(Len(seq) - 1) |-> IF i < k THEN seq[i] ELSE seq[i + 1]]

\* Lines 99-120: one turn of the while loop.
PlanPlace(g, p) ==
    LET best == BestChoice(g, p, 1, [none |-> TRUE, calls |-> 0])
    IN IF best.none THEN [p EXCEPT !.pc = "failed"]
       ELSE [p EXCEPT !.routes[best.vid] = Append(@, best.req),
                      !.remaining = Remove(@, best.req),
                      !.iters = @ + 1,
                      !.calls = @ + best.calls,
                      !.chosen = Append(@, [vid |-> best.vid, req |-> best.req,
                                            cost |-> best.cost])]

\* Lines 122-124.
RECURSIVE TotalTime(_, _, _, _)
TotalTime(g, p, k, total_time) ==
    IF k > Len(p.vehicles) THEN total_time
    ELSE TotalTime(g, p, k + 1,
                   Add(total_time,
                       _route_cost(g, p.vehicles[k], p.routes[p.vehicles[k].id],
                                   p.depot, TRUE)))

\* Lines 122-129.
PlanTotal(g, p) ==
    [p EXCEPT !.pc = "done", !.total_time = TotalTime(g, p, 1, Fin(0)),
              !.calls = @ + Len(p.vehicles)]

(***************************************************************************)
(* algorithms/grouping_monte_carlo.py: the grouping local search           *)
(***************************************************************************)
\* Lines 107-111: the index of the nearest remaining request, the first one
\* among equally near ones, the first of all when none is nearer than INF.
RECURSIVE NearestIdx(_, _, _, _, _, _)
NearestIdx(dist, cur, remaining, i, best_idx, best_t) ==
    IF i > Len(remaining) THEN best_idx
    ELSE LET t == dist[<<cur, remaining[i].node>>]
         IN IF Lt(t, best_t)
            THEN NearestIdx(dist, cur, remaining, i + 1, i, t)
            ELSE NearestIdx(dist, cur, remaining, i + 1, best_idx, best_t)

\* list.pop(k), the list that is left.
RemoveAt(seq, k) ==
    [i \in 1..(Len(seq) - 1) |-> IF i < k THEN seq[i] ELSE seq[i + 1]]

\* Lines 103-115.
RECURSIVE NearestLoop(_, _, _, _)
NearestLoop(dist, remaining, cur, route) ==
    IF remaining = <<>> THEN route
    ELSE LET best_idx == NearestIdx(dist, cur, remaining, 1, 1, INF)
             chosen == remaining[best_idx]
         IN NearestLoop(dist, RemoveAt(remaining, best_idx), chosen.node,
                        Append(route, chosen))

build_tsp_route_nearest_neighbor(depot, requests, dist) ==
    IF requests = <<>> THEN <<>> ELSE NearestLoop(dist, requests, depot, <<>>)

\* Lines 129-139.  order is the shuffled request list as positions of
\* requests, picks[i] the vehicle drawn for the i-th shuffled request.
RECURSIVE InitLoop(_, _, _, _, _)
InitLoop(vehicles, shuffled, picks, i, state) ==
    IF i > Len(shuffled) THEN state
    ELSE LET vid == vehicles[picks[i]].id
         IN InitLoop(vehicles, shuffled, picks, i + 1,
                     [state EXCEPT ![vid] = Append(@, shuffled[i])])

init_state_random(vehicles, requests, order, picks) ==
    InitLoop(vehicles, [i \in 1..Len(requests) |-> requests[order[i]]], picks, 1,
             EmptyRoutes(vehicles, 1, <<>>))

Max(a, b) == IF Lt(a, b) THEN b ELSE a

\* Lines 150-164.
RECURSIVE EvaluateLoop(_, _, _, _, _, _)
EvaluateLoop(depot, vehicles, state, dist, k, makespan) ==
    IF k > Len(vehicles) THEN makespan
    ELSE LET v == vehicles[k]
             reqs == state[v.id]
             order == build_tsp_route_nearest_neighbor(depot, reqs, dist)
             cost == route_time(depot, order, dist, v.capacity)
         IN IF v.capacity <= 0 THEN INF
            ELSE IF reqs = <<>>
            THEN EvaluateLoop(depot, vehicles, state, dist, k + 1, makespan)
            ELSE EvaluateLoop(depot, vehicles, state, dist, k + 1, Max(makespan, cost))

evaluate_state(depot, vehicles, state, dist) ==
    EvaluateLoop(depot, vehicles, state, dist, 1, Fin(0))

\* A move that hands the request on without taking it from its source.
random_move_copy(state, vehicles, from, r_idx, to) ==
    LET v_ids == [k \in 1..Len(vehicles) |-> vehicles[k].id]
        from_vid == v_ids[from]
        to_candidates == SelectSeq(v_ids, LAMBDA vid : vid # from_vid)
    IN IF state[from_vid] = <<>> \/ to_candidates = <<>> THEN state
       ELSE [state EXCEPT ![to_candidates[to]] = Append(@, state[from_vid][r_idx])]

\* Line 174: new_state = {vid: lst[:] for vid, lst in state.items()}.  A
\* call holds the dict it was given, the dict it builds, and the ids whose
\* lists the two dicts share: none, each list being copied.
MoveCall(state) == [state |-> state, new_state |-> state, shared |-> {}]

\* A list operation on new_state[vid], seen through every dict that holds
\* that list.
MoveWrite(m, vid, lst) ==
    [m EXCEPT !.new_state[vid] = lst,
              !.state[vid] = IF vid \in m.shared THEN lst ELSE @]

\* Lines 174-193.  from is the position drawn in v_ids, r_idx the position
\* drawn in the source list, to the position drawn in to_candidates.
MoveRun(state, vehicles, from, r_idx, to) ==
    LET m == MoveCall(state)
        v_ids == [k \in 1..Len(vehicles) |-> vehicles[k].id]
        from_vid == v_ids[from]
        req == m.new_state[from_vid][r_idx]
        popped == MoveWrite(m, from_vid, RemoveAt(m.new_state[from_vid], r_idx))
        to_candidates == SelectSeq(v_ids, LAMBDA vid : vid # from_vid)
    IN IF m.new_state[from_vid] = <<>> THEN m
       ELSE IF to_candidates = <<>>
       THEN MoveWrite(popped, from_vid, Append(popped.new_state[from_vid], req))
       ELSE MoveWrite(popped, to_candidates[to],
                      Append(popped.new_state[to_candidates[to]], req))

\* The state random_move returns.
random_move(state, vehicles, from, r_idx, to) ==
    MoveRun(state, vehicles, from, r_idx, to).new_state

GroupCall(depot, vehicles, requests, iterations) ==
    [pc |-> "call", depot |-> depot, vehicles |-> vehicles, requests |-> requests,
     iterations |-> iterations, dist |-> <<>>, it |-> 0,
     init_state |-> <<>>, init_cost |-> Fin(0),
     current_state |-> <<>>, current_cost |-> Fin(0),
     best_state |-> <<>>, best_cost |-> Fin(0),
     candidate |-> <<>>, cand_cost |-> Fin(0),
     routes |-> <<>>, makespan_estimate |-> Fin(0)]

\* Lines 220-226.
GroupEmpty(p) ==
    [p EXCEPT !.pc = "done", !.routes = EmptyRoutes(p.vehicles, 1, <<>>),
              !.makespan_estimate = Fin(0)]

\* Lines 229-237.  rng.choice raises IndexError when there is no vehicle.
GroupInit(g, p, order, picks) ==
    LET dist == precompute_distances(g, p.depot, p.requests)
        state == init_state_random(p.vehicles, p.requests, order, picks)
        cost == evaluate_state(p.depot, p.vehicles, state, dist)
    IN IF p.vehicles = <<>> THEN [p EXCEPT !.pc = "raised", !.dist = dist]
       ELSE [p EXCEPT !.pc = "loop", !.dist = dist,
                      !.init_state = state, !.init_cost = cost,
                      !.best_state = state, !.best_cost = cost,
                      !.current_state = state, !.current_cost = cost]

\* An acceptance that takes strictly better candidates only.
AcceptsStrict(cand_cost, current_cost) == Lt(cand_cost, current_cost)

\* An acceptance that takes every candidate.
AcceptsAny(cand_cost, current_cost) == TRUE

\* Line 244.
Accepts(cand_cost, current_cost) == Le(cand_cost, current_cost)

\* An improvement test that lets ties through.
ImprovesOrTies(cand_cost, best_cost) == Le(cand_cost, best_cost)

\* Line 248.
Improves(cand_cost, best_cost) == Lt(cand_cost, best_cost)

\* A loop that runs one turn too many.
LoopRunsOnceMore(p) == p.it <= p.iterations

\* Line 239: for it in range(self.iterations)
LoopRuns(p) == p.it < p.iterations

\* A turn that keeps every candidate, as current and as best.
GroupIterateTakeAll(p, from, r_idx, to) ==
    LET candidate == random_move(p.current_state, p.vehicles, from, r_idx, to)
        cand_cost == evaluate_state(p.depot, p.vehicles, candidate, p.dist)
    IN [p EXCEPT !.it = @ + 1, !.candidate = candidate, !.cand_cost = cand_cost,
                 !.current_state = candidate, !.current_cost = cand_cost,
                 !.best_state = candidate, !.best_cost = cand_cost]

\* Lines 239-250: one turn of the for loop.
GroupIterate(p, from, r_idx, to) ==
    LET candidate == random_move(p.current_state, p.vehicles, from, r_idx, to)
        cand_cost == evaluate_state(p.depot, p.vehicles, candidate, p.dist)
        seen == [p EXCEPT !.it = @ + 1, !.candidate = candidate, !.cand_cost = cand_cost]
        taken == [seen EXCEPT !.current_state = candidate, !.current_cost = cand_cost]
    IN IF Accepts(cand_cost, p.current_cost)
       THEN IF Improves(cand_cost, p.best_cost)
            THEN [taken EXCEPT !.best_cost = cand_cost, !.best_state = candidate]
            ELSE taken
       ELSE seen

\* Lines 253-263.
RECURSIVE GroupRoutes(_, _, _)
GroupRoutes(p, k, routes) ==
    IF k > Len(p.vehicles) THEN routes
    ELSE LET v == p.vehicles[k]
         IN GroupRoutes(p, k + 1,
                        Put(routes, v.id,
                            build_tsp_route_nearest_neighbor(p.depot, p.best_state[v.id],
                                                             p.dist)))

GroupFinish(p) ==
    [p EXCEPT !.pc = "done", !.routes = GroupRoutes(p, 1, <<>>),
              !.makespan_estimate = p.best_cost]

(***************************************************************************)
(* simulation/engine.py: TrafficSimulator                                  *)
(*                                                                         *)
(* A random.Random is a stream fixed by its seed and the number of draws   *)
(* made from it.  gauss(0, sigma) is sigma times a deviate of the stream;  *)
(* the deviates explored are 0, 1 and -MaxDev.  sigma is a tenth of the    *)
(* base time, so the simulator's times are counted in tenths of a unit.    *)
(***************************************************************************)
MaxSeed == 2

MaxDev == 12

Tenths == 10

Seeds == 0..MaxSeed

Random(seed) == [seed |-> seed, drawn |-> 0]

Deviates == <<0, 1, -MaxDev>>

\* rng.gauss(0.0, 1.0): [value, rng], the stream one draw further.
gauss(rng) ==
    [value |-> Deviates[((rng.seed * (rng.drawn + 1)) % Len(Deviates)) + 1],
     rng |-> [rng EXCEPT !.drawn = @ + 1]]

\* Lines 28-32: [time, rng]; no draw is made when sigma is 0.
_edge_time(rng, edge) ==
    LET base == base_travel_time(edge)
        draw == gauss(rng)
        noise == IF base > 0 THEN base * draw.value ELSE 0
        sample == Tenths * base + noise
    IN [time |-> IF sample < 0 THEN 0 ELSE sample,
        rng |-> IF base > 0 THEN draw.rng ELSE rng]

\* next(e for e in graph.neighbors(src) if e.dst == dst)
FirstEdge(g, src, dst) ==
    LET es == neighbors(g, src)
    IN es[CHOOSE i \in 1..Len(es) :
             es[i].dst = dst /\ \A j \in 1..(i - 1) : es[j].dst # dst]

\* Lines 54-58 and 66-70: the hops of one path from hop i on; [t, rng].
RECURSIVE SimHops(_, _, _, _)
SimHops(g, path, i, st) ==
    IF i > Len(path) - 1 THEN st
    ELSE LET et == _edge_time(st.rng, FirstEdge(g, path[i], path[i + 1]))
         IN SimHops(g, path, i + 1,
                    [t |-> Add(st.t, Fin(et.time)), rng |-> et.rng])

\* Lines 49-59: the stops of one route from stop i on; [t, rng, cur].
RECURSIVE SimStops(_, _, _, _)
SimStops(g, stops, i, st) ==
    IF i > Len(stops) THEN st
    ELSE LET req == stops[i]
             leg == Leg(g, st.cur, req.node)
             hops == SimHops(g, leg.path, 1, [t |-> st.t, rng |-> st.rng])
         IN IF leg.path = NoPath THEN [st EXCEPT !.t = FloatInf]
            ELSE SimStops(g, stops, i + 1,
                          [t |-> hops.t, rng |-> hops.rng, cur |-> req.node])

\* Line 61.
Returns(return_to_depot, t, stops) == return_to_depot /\ ~t.inf /\ stops # <<>>

\* Lines 61-70: [t, rng].
SimReturn(g, depot, st) ==
    LET leg == Leg(g, st.cur, depot)
    IN IF leg.path = NoPath THEN [t |-> FloatInf, rng |-> st.rng]
       ELSE SimHops(g, leg.path, 1, [t |-> st.t, rng |-> st.rng])

\* v_index = {v.id: v for v in vehicles}: the last vehicle of an id stays.
v_index(vehicles, vid) ==
    vehicles[CHOOSE k \in 1..Len(vehicles) :
                /\ vehicles[k].id = vid
                /\ \A j \in (k + 1)..Len(vehicles) : vehicles[j].id # vid]

\* TrafficSimulator(rng).simulate_once(graph, plan, vehicles, return_to_depot);
\* rng_arg is <<>> for None and <<rng>> for a random.Random.
SimCall(rng_arg, plan, vehicles, return_to_depot) ==
    [pc |-> "new", rng_arg |-> rng_arg, plan |-> plan, vehicles |-> vehicles,
     return_to_depot |-> return_to_depot, rng |-> Random(0), k |-> 1,
     vehicle_times |-> <<>>, total_time |-> Fin(0), max_time |-> Fin(0)]

\* Line 26: rng or random.Random(); fresh is the stream the system seeds
\* when no rng is given.
SimNew(s, fresh) ==
    [s EXCEPT !.pc = "routes",
              !.rng = IF s.rng_arg = <<>> THEN fresh ELSE s.rng_arg[1]]

\* Lines 44-72: one turn of the loop over plan.routes.
SimRoute(g, s) ==
    LET route == s.plan.routes[s.k]
        v == v_index(s.vehicles, route.vehicle_id)
        walked == SimStops(g, route.stops, 1,
                           [t |-> Fin(0), rng |-> s.rng, cur |-> v.start_node])
        home == IF Returns(s.return_to_depot, walked.t, route.stops)
                THEN SimReturn(g, s.plan.depot, walked)
                ELSE [t |-> walked.t, rng |-> walked.rng]
    IN [s EXCEPT !.k = @ + 1, !.rng = home.rng,
                 !.vehicle_times = Append(@, [vid |-> route.vehicle_id, t |-> home.t])]

RECURSIVE SumTimes(_, _)
SumTimes(times, i) ==
    IF i > Len(times) THEN Fin(0) ELSE Add(times[i].t, SumTimes(times, i + 1))

RECURSIVE MaxTimes(_, _, _)
MaxTimes(times, i, acc) ==
    IF i > Len(times) THEN acc ELSE MaxTimes(times, i + 1, Max(acc, times[i].t))

\* Lines 74-80.
SimResult(s) ==
    [s EXCEPT !.pc = "done",
              !.max_time = IF s.vehicle_times = <<>> THEN Fin(0)
                           ELSE MaxTimes(s.vehicle_times, 2, s.vehicle_times[1].t),
              !.total_time = SumTimes(s.vehicle_times, 1)]

SimStep(g, s) ==
    IF s.k <= Len(s.plan.routes) THEN SimRoute(g, s) ELSE SimResult(s)

\* simulate_once run to its return.
RECURSIVE SimRun(_, _)
SimRun(g, s) == IF s.pc = "done" THEN s ELSE SimRun(g, SimStep(g, s))

IdleAStar == AStarCall(1, 1)
IdleWalk == [pc |-> "idle"]
IdleMWalk == [pc |-> "idle"]
IdleDCost == [pc |-> "idle"]
IdleGreedy == [pc |-> "idle"]
IdleGroup == [pc |-> "idle"]
IdleSim == [pc |-> "idle"]
IdlePure == [pc |-> "idle"]

(***************************************************************************)
(* The path search run step by step.                                       *)
(***************************************************************************)
InitAStar ==
    /\ graph \in Graphs
    /\ group = IdleGroup
    /\ sim = IdleSim
    /\ pure = IdlePure
    /\ \E s \in Nodes, d \in Nodes : astar = AStarCall(s, d)
    /\ walk = IdleWalk
    /\ mwalk = IdleMWalk
    /\ dcost = IdleDCost
    /\ greedy = IdleGreedy

AStarTrivial ==
    /\ astar.pc = "entry" /\ astar.start = astar.goal
    /\ astar' = AStarStep(graph, astar)
    /\ UNCHANGED <<graph, walk, mwalk, dcost, greedy, group, sim, pure>>

AStarBegin ==
    /\ astar.pc = "entry" /\ astar.start # astar.goal
    /\ astar' = AStarStep(graph, astar)
    /\ UNCHANGED <<graph, walk, mwalk, dcost, greedy, group, sim, pure>>

AStarExhausted ==
    /\ astar.pc = "loop" /\ astar.open_set = {}
    /\ astar' = AStarStep(graph, astar)
    /\ UNCHANGED <<graph, walk, mwalk, dcost, greedy, group, sim, pure>>

AStarSkipClosed ==
    /\ astar.pc = "loop" /\ astar.open_set # {}
    /\ heappop(astar.open_set)[2] \in astar.closed
    /\ astar' = AStarStep(graph, astar)
    /\ UNCHANGED <<graph, walk, mwalk, dcost, greedy, group, sim, pure>>

AStarReachGoal ==
    /\ astar.pc = "loop" /\ astar.open_set # {}
    /\ heappop(astar.open_set)[2] \notin astar.closed
    /\ heappop(astar.open_set)[2] = astar.goal
    /\ astar' = AStarStep(graph, astar)
    /\ UNCHANGED <<graph, walk, mwalk, dcost, greedy, group, sim, pure>>

AStarExpand ==
    /\ astar.pc = "loop" /\ astar.open_set # {}
    /\ heappop(astar.open_set)[2] \notin astar.closed
    /\ heappop(astar.open_set)[2] # astar.goal
    /\ astar' = AStarStep(graph, astar)
    /\ UNCHANGED <<graph, walk, mwalk, dcost, greedy, group, sim, pure>>

NextAStar ==
    \/ AStarTrivial
    \/ AStarBegin
    \/ AStarExhausted
    \/ AStarSkipClosed
    \/ AStarReachGoal
    \/ AStarExpand

SpecAStar == InitAStar /\ [][NextAStar]_vars

(***************************************************************************)
(* The route cost functions run on bounded inputs.                         *)
(***************************************************************************)
StopLists ==
    UNION {{[i \in 1..n |-> DeliveryRequest(i, f[i][1], f[i][2])] :
               f \in [1..n -> Nodes \X (0..MaxDemand)]} : n \in 0..MaxStops}

InitRouteCost ==
    /\ graph \in RouteGraphs
    /\ group = IdleGroup
    /\ sim = IdleSim
    /\ pure = IdlePure
    /\ \E cap \in 0..MaxCap, s \in Nodes, d \in Nodes, stops \in StopLists :
          walk = RouteCall(Vehicle(1, cap, s), stops, d, TRUE)
    /\ astar = IdleAStar
    /\ mwalk = IdleMWalk
    /\ dcost = IdleDCost
    /\ greedy = IdleGreedy

RouteCostEntry ==
    /\ walk.pc = "entry"
    /\ walk' = RouteStep(graph, walk)
    /\ UNCHANGED <<graph, astar, mwalk, dcost, greedy, group, sim, pure>>

RouteCostStop ==
    /\ walk.pc = "loop" /\ walk.i <= Len(walk.stops)
    /\ walk' = RouteStep(graph, walk)
    /\ UNCHANGED <<graph, astar, mwalk, dcost, greedy, group, sim, pure>>

RouteCostFinish ==
    /\ walk.pc = "loop" /\ walk.i > Len(walk.stops)
    /\ walk' = RouteStep(graph, walk)
    /\ UNCHANGED <<graph, astar, mwalk, dcost, greedy, group, sim, pure>>

\* The stop lists drawn from a request list: its requests in any order,
\* each at most once.
Picks(requests) ==
    {[i \in 1..Len(idx) |-> requests[idx[i]]] :
        idx \in {q \in UNION {[1..n -> 1..Len(requests)] : n \in 0..Len(requests)} :
                    \A i, j \in 1..Len(q) : i # j => q[i] # q[j]}}

InitRouteTime ==
    /\ graph \in RouteGraphs
    /\ group = IdleGroup
    /\ sim = IdleSim
    /\ pure = IdlePure
    /\ \E cap \in 0..MaxCap, d \in Nodes, requests \in StopLists :
          \E stops \in Picks(requests) : mwalk = TimeCall(d, stops, requests, cap)
    /\ astar = IdleAStar
    /\ walk = IdleWalk
    /\ dcost = IdleDCost
    /\ greedy = IdleGreedy

RouteTimePrecompute ==
    /\ mwalk.pc = "precompute"
    /\ mwalk' = TimeStep(graph, mwalk)
    /\ UNCHANGED <<graph, astar, walk, dcost, greedy, group, sim, pure>>

RouteTimeEntry ==
    /\ mwalk.pc = "entry"
    /\ mwalk' = TimeStep(graph, mwalk)
    /\ UNCHANGED <<graph, astar, walk, dcost, greedy, group, sim, pure>>

RouteTimeStop ==
    /\ mwalk.pc = "loop" /\ mwalk.i <= Len(mwalk.stops)
    /\ mwalk' = TimeStep(graph, mwalk)
    /\ UNCHANGED <<graph, astar, walk, dcost, greedy, group, sim, pure>>

RouteTimeFinish ==
    /\ mwalk.pc = "loop" /\ mwalk.i > Len(mwalk.stops)
    /\ mwalk' = TimeStep(graph, mwalk)
    /\ UNCHANGED <<graph, astar, walk, dcost, greedy, group, sim, pure>>

\* Plans for _deterministic_cost: one vehicle with up to MaxStops stops, or
\* two vehicles with at most one stop each, all starting at the depot.
DetInputs(d) ==
    {[vehicles |-> [k \in 1..1 |-> Vehicle(k, caps[k], d)],
      plan |-> Plan(d, [k \in 1..1 |-> VehicleRoute(k, stops[k])])] :
        caps \in [1..1 -> 0..MaxCap], stops \in [1..1 -> StopLists]}
    \cup
    {[vehicles |-> [k \in 1..2 |-> Vehicle(k, caps[k], d)],
      plan |-> Plan(d, [k \in 1..2 |-> VehicleRoute(k, stops[k])])] :
        caps \in [1..2 -> 0..MaxCap],
        stops \in [1..2 -> {l \in StopLists : Len(l) <= 1}]}

InitDetCost ==
    /\ graph \in RouteGraphs
    /\ group = IdleGroup
    /\ sim = IdleSim
    /\ pure = IdlePure
    /\ \E d \in Nodes : \E in \in DetInputs(d) :
          dcost = [pc |-> "call", vehicles |-> in.vehicles, plan |-> in.plan,
                   result |-> PlanCost(in.plan, Fin(0))]
    /\ astar = IdleAStar
    /\ walk = IdleWalk
    /\ mwalk = IdleMWalk
    /\ greedy = IdleGreedy

DeterministicCost ==
    /\ dcost.pc = "call"
    /\ dcost' = [dcost EXCEPT
                    !.pc = "done",
                    !.result = _deterministic_cost(graph, dcost.vehicles, dcost.plan, TRUE)]
    /\ UNCHANGED <<graph, astar, walk, mwalk, greedy, group, sim, pure>>

(***************************************************************************)
(* The specification of GreedyVRPPlanner.build_plan                        *)
(***************************************************************************)
Fleets(d) ==
    UNION {{[k \in 1..n |-> Vehicle(k, caps[k], starts[k])] :
                caps \in [1..n -> 0..MaxCap], starts \in [1..n -> {d, NumNodes}]} :
           n \in 0..MaxVehicles}

GreedyGraphs == {g \in RouteGraphs : \A n \in Nodes : g.x[n] = 0}

\* The request lists given to the planners: those of StopLists, and the
\* lists that hold one request twice.
RequestLists ==
    StopLists \cup {<<l[1], l[1]>> : l \in {s \in StopLists : Len(s) = 1}}

InitGreedy ==
    /\ graph \in GreedyGraphs
    /\ group = IdleGroup
    /\ sim = IdleSim
    /\ pure = IdlePure
    /\ \E d \in Nodes, requests \in RequestLists :
          \E vehicles \in Fleets(d) : greedy = PlanCall(d, vehicles, requests)
    /\ astar = IdleAStar
    /\ walk = IdleWalk
    /\ mwalk = IdleMWalk
    /\ dcost = IdleDCost

BuildPlanCheck ==
    /\ greedy.pc = "check"
    /\ greedy' = PlanCheck(greedy)
    /\ UNCHANGED <<graph, astar, walk, mwalk, dcost, group, sim, pure>>

BuildPlanPlace ==
    /\ greedy.pc = "loop" /\ greedy.remaining # <<>>
    /\ greedy' = PlanPlace(graph, greedy)
    /\ UNCHANGED <<graph, astar, walk, mwalk, dcost, group, sim, pure>>

BuildPlanTotal ==
    /\ greedy.pc = "loop" /\ greedy.remaining = <<>>
    /\ greedy' = PlanTotal(graph, greedy)
    /\ UNCHANGED <<graph, astar, walk, mwalk, dcost, group, sim, pure>>

NextGreedy ==
    \/ BuildPlanCheck
    \/ BuildPlanPlace
    \/ BuildPlanTotal

SpecGreedy == InitGreedy /\ [][NextGreedy]_vars

InitRoute == InitRouteCost \/ InitRouteTime \/ InitDetCost

NextRoute ==
    \/ RouteCostEntry
    \/ RouteCostStop
    \/ RouteCostFinish
    \/ RouteTimePrecompute
    \/ RouteTimeEntry
    \/ RouteTimeStop
    \/ RouteTimeFinish
    \/ DeterministicCost

SpecRoute == InitRoute /\ [][NextRoute]_vars

(***************************************************************************)
(* Reference notions the path search is judged against, defined on the     *)
(* graph alone.                                                            *)
(***************************************************************************)
EdgeTimes(g, u, v) ==
    {base_travel_time(neighbors(g, u)[i]) :
        i \in {j \in 1..Len(neighbors(g, u)) : neighbors(g, u)[j].dst = v}}

EdgeCount(g) ==
    LET RECURSIVE Sum(_)
        Sum(n) == IF n > NumNodes THEN 0 ELSE Len(g.adj[n]) + Sum(n + 1)
    IN Sum(1)

\* The sums of edge times obtainable along the node sequence p.
RECURSIVE PathSums(_, _, _)
PathSums(g, p, i) ==
    IF i >= Len(p) THEN {0}
    ELSE {t + r : t \in EdgeTimes(g, p[i], p[i + 1]), r \in PathSums(g, p, i + 1)}

Unreached == NumNodes * MaxLen + 1

MinOf(S) == CHOOSE m \in S : \A n \in S : m <= n

\* Bellman-Ford: least total time from s to every node, Unreached if none.
RECURSIVE BellmanFord(_, _, _)
BellmanFord(g, d, k) ==
    IF k = 0 THEN d
    ELSE BellmanFord(g,
           [v \in Nodes |->
               MinOf({d[v]} \cup
                     UNION {{d[u] + t : t \in EdgeTimes(g, u, v)} :
                                u \in {w \in Nodes : d[w] < Unreached}})],
           k - 1)

Dist(g, s, t) ==
    BellmanFord(g, [v \in Nodes |-> IF v = s THEN 0 ELSE Unreached], NumNodes)[t]

Reachable(g, s, t) == Dist(g, s, t) < Unreached

\* h(u, t) <= time(u, v) + h(v, t) on every edge, for every goal t.
Consistent(g) ==
    LET top == max_speed_limit(g)
        h(a, b) == Abs(g.x[a] - g.x[b]) \div top
    IN \A u \in Nodes :
         \A i \in 1..Len(neighbors(g, u)) :
           \A t \in Nodes :
             h(u, t) <= base_travel_time(neighbors(g, u)[i])
                        + h(neighbors(g, u)[i].dst, t)

(***************************************************************************)
(* Claims about the path search.                                           *)
(***************************************************************************)

\* C1: whenever the search returns a path, the path starts at start, ends
\* at goal, follows edges of the graph, and its summed edge times equal the
\* returned cost -- on every graph, also after a closed node's g_score and
\* came_from entries were rewritten.
C1_PathMatchesCost ==
    (astar.pc = "done" /\ astar.path # NoPath) =>
        /\ astar.path[1] = astar.start
        /\ Last(astar.path) = astar.goal
        /\ ~astar.cost.inf
        /\ astar.cost.val \in PathSums(graph, astar.path, 1)

\* C2: with a consistent heuristic the returned cost is the least total
\* travel time over all directed paths from start to goal.
C2_CostIsShortest ==
    (astar.pc = "done" /\ astar.path # NoPath) =>
        \/ ~Consistent(graph)
        \/ astar.cost = Fin(Dist(graph, astar.start, astar.goal))

C2_Witness ==
    /\ astar.pc = "done" /\ Consistent(graph)
    /\ Len(astar.path) >= 3
    /\ astar.iters > Cardinality(astar.closed) + 1
    /\ astar.cost = Fin(Dist(graph, astar.start, astar.goal))

\* C3: the search never pops more than one entry per edge plus one, so it
\* returns; and when goal is not reachable from start (start # goal) what
\* it returns is no path with cost +infinity.
C3_UnreachableGivesNone ==
    /\ astar.iters <= EdgeCount(graph) + 1
    /\ (/\ astar.pc = "done" /\ astar.start # astar.goal
        /\ ~Reachable(graph, astar.start, astar.goal))
       => (astar.path = NoPath /\ astar.cost = FloatInf)

C3_Witness ==
    /\ astar.pc = "done" /\ astar.start # astar.goal
    /\ ~Reachable(graph, astar.start, astar.goal)
    /\ astar.iters >= 3
    /\ astar.path = NoPath /\ astar.cost = FloatInf

\* C4: a search from a node to itself returns the one-node path with cost
\* 0 before the open set exists: nothing is popped and no edge is explored.
C4_TrivialSearch ==
    (astar.pc = "done" /\ astar.start = astar.goal) =>
        /\ astar.path = <<astar.start>>
        /\ astar.cost = Fin(0)
        /\ astar.explored = 0 /\ astar.iters = 0 /\ astar.open_set = {}

C4_Witness ==
    /\ astar.pc = "done" /\ astar.start = astar.goal
    /\ Len(neighbors(graph, astar.start)) > 0
    /\ astar.path = <<astar.start>>

(***************************************************************************)
(* The specification of MonteCarloGroupingPlanner.build_plan               *)
(***************************************************************************)
\* Fleets whose ids are all different or all the same, parked at the depot.
GroupFleets(d) ==
    UNION {{[k \in 1..n |-> Vehicle(IF same THEN 1 ELSE k, caps[k], d)] :
                caps \in [1..n -> 0..MaxCap], same \in BOOLEAN} :
           n \in 0..MaxVehicles}

\* Level nodes, every road present, road 2-4 long, one-way or not.
GroupGraphs ==
    {BuildRoads(EmptyGraph([n \in Nodes |-> 0]),
                [i \in 1..Len(RoadSlots) |-> IF i = 3 THEN MaxLen ELSE 1], bidir, 1) :
        bidir \in BOOLEAN}

Perms(n) == {f \in [1..n -> 1..n] : \A i, j \in 1..n : i # j => f[i] # f[j]}

InitGroup ==
    /\ graph \in GroupGraphs
    /\ \E d \in Nodes, requests \in RequestLists, iterations \in {0, MaxIters} :
          \E vehicles \in GroupFleets(d) :
              group = GroupCall(d, vehicles, requests, iterations)
    /\ astar = IdleAStar
    /\ walk = IdleWalk
    /\ mwalk = IdleMWalk
    /\ dcost = IdleDCost
    /\ greedy = IdleGreedy
    /\ sim = IdleSim
    /\ pure = IdlePure

GroupingEmpty ==
    /\ group.pc = "call" /\ group.requests = <<>>
    /\ group' = GroupEmpty(group)
    /\ UNCHANGED <<graph, astar, walk, mwalk, dcost, greedy, sim, pure>>

GroupingInit ==
    /\ group.pc = "call" /\ group.requests # <<>>
    /\ \E order \in Perms(Len(group.requests)) :
          \E picks \in [1..Len(group.requests) ->
                            1..(IF group.vehicles = <<>> THEN 1 ELSE Len(group.vehicles))] :
              group' = GroupInit(graph, group, order, picks)
    /\ UNCHANGED <<graph, astar, walk, mwalk, dcost, greedy, sim, pure>>

GroupingIterate ==
    /\ group.pc = "loop" /\ LoopRuns(group)
    /\ \E from \in 1..Len(group.vehicles) :
          LET src == group.current_state[group.vehicles[from].id]
              others == {k \in 1..Len(group.vehicles) :
                            group.vehicles[k].id # group.vehicles[from].id}
          IN \E r_idx \in (IF src = <<>> THEN {1} ELSE 1..Len(src)) :
               \E to \in (IF others = {} THEN {1} ELSE 1..Cardinality(others)) :
                 group' = GroupIterate(group, from, r_idx, to)
    /\ UNCHANGED <<graph, astar, walk, mwalk, dcost, greedy, sim, pure>>

GroupingFinish ==
    /\ group.pc = "loop" /\ ~LoopRuns(group)
    /\ group' = GroupFinish(group)
    /\ UNCHANGED <<graph, astar, walk, mwalk, dcost, greedy, sim, pure>>

NextGroup ==
    \/ GroupingEmpty
    \/ GroupingInit
    \/ GroupingIterate
    \/ GroupingFinish

SpecGroup == InitGroup /\ [][NextGroup]_vars

(***************************************************************************)
(* The specification of TrafficSimulator                                   *)
(***************************************************************************)
\* Vehicles with different ids, each parked at the depot or at the last node.
SimFleets(d) ==
    UNION {{[k \in 1..n |-> Vehicle(k, MaxCap, starts[k])] :
                starts \in [1..n -> {d, NumNodes}]} : n \in 0..MaxVehicles}

SimStopLists == {l \in StopLists : \A i \in 1..Len(l) : l[i].demand = 1}

\* One route per vehicle: one vehicle with up to MaxStops stops, or several
\* with at most one stop each.
SimPlans(d, vehicles) ==
    {Plan(d, [k \in 1..Len(vehicles) |-> VehicleRoute(vehicles[k].id, stops[k])]) :
        stops \in [1..Len(vehicles) ->
                      {l \in SimStopLists : Len(vehicles) = 1 \/ Len(l) <= 1}]}

RngArgs == {<<>>} \cup {<<Random(seed)>> : seed \in Seeds}

InitSim ==
    /\ graph \in WalkGraphs
    /\ \E d \in Nodes, rng_arg \in RngArgs, return_to_depot \in BOOLEAN :
          \E vehicles \in SimFleets(d) :
              \E plan \in SimPlans(d, vehicles) :
                  sim = SimCall(rng_arg, plan, vehicles, return_to_depot)
    /\ astar = IdleAStar
    /\ walk = IdleWalk
    /\ mwalk = IdleMWalk
    /\ dcost = IdleDCost
    /\ greedy = IdleGreedy
    /\ group = IdleGroup
    /\ pure = IdlePure

SimulatorNew ==
    /\ sim.pc = "new"
    /\ \E seed \in Seeds : sim' = SimNew(sim, Random(seed))
    /\ UNCHANGED <<graph, astar, walk, mwalk, dcost, greedy, group, pure>>

SimulateRoute ==
    /\ sim.pc = "routes" /\ sim.k <= Len(sim.plan.routes)
    /\ sim' = SimStep(graph, sim)
    /\ UNCHANGED <<graph, astar, walk, mwalk, dcost, greedy, group, pure>>

SimulateResult ==
    /\ sim.pc = "routes" /\ sim.k > Len(sim.plan.routes)
    /\ sim' = SimStep(graph, sim)
    /\ UNCHANGED <<graph, astar, walk, mwalk, dcost, greedy, group, pure>>

NextSim ==
    \/ SimulatorNew
    \/ SimulateRoute
    \/ SimulateResult

SpecSim == InitSim /\ [][NextSim]_vars

(***************************************************************************)
(* random_move and evaluate_state called on states of their own            *)
(***************************************************************************)
MaxHeld == 3

\* Lists of n requests with positive demands.
HeldLists(n) ==
    {[i \in 1..n |-> DeliveryRequest(i, f[i][1], f[i][2])] :
        f \in [1..n -> Nodes \X (1..MaxDemand)]}

\* The state that gives the i-th request of the list to vehicle picks[i].
StateOf(vehicles, requests, picks) ==
    InitLoop(vehicles, requests, picks, 1, EmptyRoutes(vehicles, 1, <<>>))

\* Fleets of one vehicle or more, their ids all different or all the same.
MoveFleets ==
    UNION {{[k \in 1..n |-> Vehicle(IF same THEN 1 ELSE k, MaxCap, 1)] :
                same \in BOOLEAN} : n \in 1..MaxVehicles}

\* Fleets with different ids and positive capacities, parked at the depot.
EvalFleets(d) ==
    UNION {{[k \in 1..n |-> Vehicle(k, caps[k], d)] : caps \in [1..n -> 1..MaxCap]} :
           n \in 1..MaxVehicles}

MoveProbe(vehicles, state) ==
    [pc |-> "move", vehicles |-> vehicles, state |-> state]

EvalProbe(depot, vehicles, requests, state, other) ==
    [pc |-> "evaluate", depot |-> depot, vehicles |-> vehicles,
     requests |-> requests, state |-> state, other |-> other]

InitMove ==
    /\ graph = EmptyGraph([n \in Nodes |-> 0])
    /\ \E n \in 0..MaxHeld, vehicles \in MoveFleets :
          \E requests \in HeldLists(n), picks \in [1..n -> 1..Len(vehicles)] :
              pure = MoveProbe(vehicles, StateOf(vehicles, requests, picks))
    /\ astar = IdleAStar
    /\ walk = IdleWalk
    /\ mwalk = IdleMWalk
    /\ dcost = IdleDCost
    /\ greedy = IdleGreedy
    /\ group = IdleGroup
    /\ sim = IdleSim

\* Two states that give every vehicle the same requests, the lists of the
\* second in the order of a permutation of the requests.
InitEvaluate ==
    /\ graph \in GroupGraphs
    /\ \E n \in 0..MaxHeld, d \in Nodes :
          \E vehicles \in EvalFleets(d), requests \in HeldLists(n), order \in Perms(n) :
              \E picks \in [1..n -> 1..Len(vehicles)] :
                  pure = EvalProbe(d, vehicles, requests,
                                   StateOf(vehicles, requests, picks),
                                   StateOf(vehicles,
                                           [i \in 1..n |-> requests[order[i]]],
                                           [i \in 1..n |-> picks[order[i]]]))
    /\ astar = IdleAStar
    /\ walk = IdleWalk
    /\ mwalk = IdleMWalk
    /\ dcost = IdleDCost
    /\ greedy = IdleGreedy
    /\ group = IdleGroup
    /\ sim = IdleSim

\* candidate = random_move(state, vehicles, rng): the two dicts after the call.
RandomMove ==
    /\ pure.pc = "move"
    /\ \E from \in 1..Len(pure.vehicles) :
          LET src == pure.state[pure.vehicles[from].id]
              others == {k \in 1..Len(pure.vehicles) :
                            pure.vehicles[k].id # pure.vehicles[from].id}
          IN \E r_idx \in (IF src = <<>> THEN {1} ELSE 1..Len(src)) :
               \E to \in (IF others = {} THEN {1} ELSE 1..Cardinality(others)) :
                 LET m == MoveRun(pure.state, pure.vehicles, from, r_idx, to)
                 IN pure' = [pc |-> "moved", vehicles |-> pure.vehicles,
                             given |-> pure.state, from |-> from,
                             state |-> m.state, new_state |-> m.new_state]
    /\ UNCHANGED <<graph, astar, walk, mwalk, dcost, greedy, group, sim>>

\* evaluate_state on each of the two states, over one matrix.
EvaluateStates ==
    /\ pure.pc = "evaluate"
    /\ LET dist == precompute_distances(graph, pure.depot, pure.requests)
       IN pure' = [pc |-> "evaluated", depot |-> pure.depot,
                   vehicles |-> pure.vehicles, state |-> pure.state,
                   other |-> pure.other,
                   cost |-> evaluate_state(pure.depot, pure.vehicles, pure.state, dist),
                   other_cost |-> evaluate_state(pure.depot, pure.vehicles,
                                                 pure.other, dist)]
    /\ UNCHANGED <<graph, astar, walk, mwalk, dcost, greedy, group, sim>>

InitState == InitMove \/ InitEvaluate

NextState ==
    \/ RandomMove
    \/ EvaluateStates

SpecState == InitState /\ [][NextState]_vars

\* The route walks and the planner side by side.
InitCost == InitRoute \/ InitGreedy

NextCost == NextRoute \/ NextGreedy

SpecCost == InitCost /\ [][NextCost]_vars

(***************************************************************************)
(* Reference notions for the route walk                                    *)
(***************************************************************************)
\* The legs of a capacity walk: a return leg to the depot exactly before a
\* stop whose demand exceeds what is left, a leg to every stop, and the
\* closing leg to the depot.  A leg from a node to itself takes no time.
RECURSIVE WalkLegs(_, _, _, _, _, _)
WalkLegs(cap, depot, stops, i, cur, left) ==
    IF i > Len(stops) THEN <<<<cur, depot>>>>
    ELSE IF left < stops[i].demand
    THEN <<<<cur, depot>>, <<depot, stops[i].node>>>>
         \o WalkLegs(cap, depot, stops, i + 1, stops[i].node, cap - stops[i].demand)
    ELSE <<<<cur, stops[i].node>>>>
         \o WalkLegs(cap, depot, stops, i + 1, stops[i].node, left - stops[i].demand)

RECURSIVE Overflows(_, _, _, _)
Overflows(cap, stops, i, left) ==
    IF i > Len(stops) THEN 0
    ELSE IF left < stops[i].demand
    THEN 1 + Overflows(cap, stops, i + 1, cap - stops[i].demand)
    ELSE Overflows(cap, stops, i + 1, left - stops[i].demand)

RECURSIVE LegsCost(_, _, _)
LegsCost(g, legs, i) ==
    IF i > Len(legs) THEN Fin(0)
    ELSE LET r == Leg(g, legs[i][1], legs[i][2])
         IN IF r.path = NoPath THEN FloatInf
            ELSE Add(r.cost, LegsCost(g, legs, i + 1))

RECURSIVE MatrixLegsCost(_, _, _)
MatrixLegsCost(dist, legs, i) ==
    IF i > Len(legs) THEN Fin(0)
    ELSE Add(dist[legs[i]], MatrixLegsCost(dist, legs, i + 1))

\* start -> stop1 -> ... -> stopN -> depot
Chain(start, stops, depot) ==
    [i \in 1..(Len(stops) + 1) |->
        <<IF i = 1 THEN start ELSE stops[i - 1].node,
          IF i > Len(stops) THEN depot ELSE stops[i].node>>]

Moves(legs) == SelectSeq(legs, LAMBDA l : l[1] # l[2])

RECURSIVE SumDemand(_, _)
SumDemand(stops, i) ==
    IF i > Len(stops) THEN 0 ELSE stops[i].demand + SumDemand(stops, i + 1)

DepotVehicle(m) == Vehicle(1, m.vehicle_capacity, m.depot)

ValidLoad(vehicle, stops) ==
    /\ vehicle.capacity > 0
    /\ \A i \in 1..Len(stops) : stops[i].demand > 0

Requests == {DeliveryRequest(MaxStops + 1, n, dm) : n \in Nodes, dm \in 0..MaxDemand}

\* C5: in every graph, appending any request to a stop list never lowers
\* _route_cost, where +infinity counts as the largest cost.
C5_AppendNeverCheaper ==
    walk.pc = "done" =>
        \A r \in Requests :
            Le(walk.cost,
               _route_cost(graph, walk.vehicle, walk.stops \o <<r>>, walk.depot, TRUE))

\* C5 (amended): when the heuristic is consistent for the graph, so that every
\* leg cost is a shortest travel time, appending any request to a stop list
\* never lowers _route_cost, where +infinity counts as the largest cost.
C5_AppendNeverCheaperConsistent ==
    (walk.pc = "done" /\ Consistent(graph)) =>
        \A r \in Requests :
            Le(walk.cost,
               _route_cost(graph, walk.vehicle, walk.stops \o <<r>>, walk.depot, TRUE))

C5_Witness ==
    /\ walk.pc = "done" /\ Consistent(graph)
    /\ Len(walk.stops) >= 1 /\ ~walk.cost.inf
    /\ \E r \in Requests :
         LET more == RouteRun(graph, RouteCall(walk.vehicle, walk.stops \o <<r>>,
                                               walk.depot, TRUE))
         IN /\ walk.cap_left < r.demand
            /\ more.resets = walk.resets + 1
            /\ ~more.cost.inf
            /\ Lt(walk.cost, more.cost)

\* C6: with a positive capacity and positive demands, the route walk sends
\* the vehicle back to the depot exactly before each stop whose demand
\* exceeds the capacity left, and nowhere else before the closing return:
\* the cost of _route_cost is the sum of the leg costs of that walk, a finite
\* walk travels exactly its legs, with one reload per overflow, and a stop
\* list whose total demand fits the capacity costs the single trip
\* start -> stop1 -> ... -> stopN -> depot; route_time sums the matrix
\* entries of the same legs.
C6_ReturnLegPerOverflow ==
    /\ (walk.pc = "done" /\ ValidLoad(walk.vehicle, walk.stops)) =>
          LET cap == walk.vehicle.capacity
              legs == WalkLegs(cap, walk.depot, walk.stops, 1,
                               walk.vehicle.start_node, cap)
          IN /\ walk.cost = LegsCost(graph, legs, 1)
             /\ ~walk.cost.inf =>
                  /\ Moves(walk.legs) = Moves(legs)
                  /\ walk.resets = Overflows(cap, walk.stops, 1, cap)
             /\ SumDemand(walk.stops, 1) <= cap =>
                  /\ walk.resets = 0
                  /\ walk.cost = LegsCost(graph, Chain(walk.vehicle.start_node,
                                                       walk.stops, walk.depot), 1)
    /\ (mwalk.pc = "done" /\ ValidLoad(DepotVehicle(mwalk), mwalk.stops)) =>
          LET cap == mwalk.vehicle_capacity
              legs == WalkLegs(cap, mwalk.depot, mwalk.stops, 1, mwalk.depot, cap)
          IN /\ mwalk.cost = MatrixLegsCost(mwalk.dist, legs, 1)
             /\ SumDemand(mwalk.stops, 1) <= cap =>
                  mwalk.cost = MatrixLegsCost(mwalk.dist,
                                              Chain(mwalk.depot, mwalk.stops, mwalk.depot), 1)

C6_Witness ==
    /\ walk.pc = "done" /\ ValidLoad(walk.vehicle, walk.stops)
    /\ Len(walk.stops) = MaxStops
    /\ walk.resets = 1
    /\ ~walk.cost.inf /\ Lt(Fin(0), walk.cost)
    /\ \E k \in 2..(Len(walk.legs) - 1) :
         walk.legs[k][2] = walk.depot /\ walk.legs[k][1] # walk.depot
    /\ walk.cost = LegsCost(graph, walk.legs, 1)
\* Which nodes of a route graph have a road path to which, by Bellman-Ford.
ReachTable ==
    [g \in WalkGraphs |-> [a \in Nodes |-> [b \in Nodes |-> Reachable(g, a, b)]]]

HasRoad(g, leg) == ReachTable[g][leg[1]][leg[2]]

\* Some leg of the capacity walk of a vehicle over its stops has no road path.
BrokenWalk(g, vehicle, stops, depot) ==
    LET legs == WalkLegs(vehicle.capacity, depot, stops, 1, vehicle.start_node,
                         vehicle.capacity)
    IN \E i \in 1..Len(legs) : ~HasRoad(g, legs[i])

\* Some leg of the walk has no road path in either direction.
CutWalk(g, vehicle, stops, depot) ==
    LET legs == WalkLegs(vehicle.capacity, depot, stops, 1, vehicle.start_node,
                         vehicle.capacity)
    IN \E i \in 1..Len(legs) :
          ~HasRoad(g, legs[i]) /\ ~HasRoad(g, <<legs[i][2], legs[i][1]>>)

\* C7: a capacity <= 0, with any stop list, the empty one included, and a
\* stop with demand <= 0 each make the route cost the infinite sentinel, in
\* _route_cost, in route_time and in _deterministic_cost.
C7_NonPositiveIsInfinite ==
    /\ (walk.pc = "done" /\ ~ValidLoad(walk.vehicle, walk.stops))
          => walk.cost = FloatInf
    /\ (mwalk.pc = "done" /\ ~ValidLoad(DepotVehicle(mwalk), mwalk.stops))
          => mwalk.cost = INF
    /\ (dcost.pc = "done"
          /\ \E k \in 1..Len(dcost.vehicles) :
                ~ValidLoad(dcost.vehicles[k], dcost.plan.routes[k].stops))
          => dcost.result.total_time = FloatInf

\* C8: a leg without a path makes the whole route cost infinite, in
\* _route_cost and in route_time over the precomputed matrix alike, and
\* build_plan then returns a plan whose total_time is +infinity.
C8_NoPathIsInfinite ==
    /\ (walk.pc = "done" /\ ValidLoad(walk.vehicle, walk.stops)
          /\ BrokenWalk(graph, walk.vehicle, walk.stops, walk.depot))
          => walk.cost = FloatInf
    /\ (mwalk.pc = "done" /\ ValidLoad(DepotVehicle(mwalk), mwalk.stops)
          /\ BrokenWalk(graph, DepotVehicle(mwalk), mwalk.stops, mwalk.depot))
          => mwalk.cost.big >= 1
    /\ greedy.pc # "failed"
    /\ (greedy.pc = "done"
          /\ \E k \in 1..Len(greedy.vehicles) :
                BrokenWalk(graph, greedy.vehicles[k],
                           greedy.routes[greedy.vehicles[k].id], greedy.depot))
          => greedy.total_time = FloatInf

\* C8 (amended): a leg without a path makes _route_cost +infinity, and
\* build_plan then returns a plan whose total_time is +infinity; route_time
\* is at least the sentinel INF when some leg has no path in either
\* direction.
C8_NoPathIsInfiniteEitherWay ==
    /\ (walk.pc = "done" /\ ValidLoad(walk.vehicle, walk.stops)
          /\ BrokenWalk(graph, walk.vehicle, walk.stops, walk.depot))
          => walk.cost = FloatInf
    /\ (mwalk.pc = "done" /\ ValidLoad(DepotVehicle(mwalk), mwalk.stops)
          /\ CutWalk(graph, DepotVehicle(mwalk), mwalk.stops, mwalk.depot))
          => mwalk.cost.big >= 1
    /\ greedy.pc # "failed"
    /\ (greedy.pc = "done"
          /\ \E k \in 1..Len(greedy.vehicles) :
                BrokenWalk(graph, greedy.vehicles[k],
                           greedy.routes[greedy.vehicles[k].id], greedy.depot))
          => greedy.total_time = FloatInf

C8_Witness ==
    /\ greedy.pc = "done" /\ Len(greedy.requests) = MaxStops
    /\ \A k \in 1..Len(greedy.vehicles) :
          ValidLoad(greedy.vehicles[k], greedy.routes[greedy.vehicles[k].id])
    /\ \E k \in 1..Len(greedy.vehicles) :
          /\ Len(greedy.routes[greedy.vehicles[k].id]) >= 1
          /\ BrokenWalk(graph, greedy.vehicles[k],
                        greedy.routes[greedy.vehicles[k].id], greedy.depot)
    /\ greedy.total_time = FloatInf

\* An infinite _route_cost answers to a route_time of at least INF, a finite
\* one to the same finite value.
SameCost(m, c) == IF c.inf THEN m.big >= 1 ELSE m = c

\* A* gives every two of the nodes the same leg, there and back.
SymmetricLegs(g, nodes) ==
    \A a, b \in nodes :
        /\ (Leg(g, a, b).path = NoPath) = (Leg(g, b, a).path = NoPath)
        /\ Leg(g, a, b).cost = Leg(g, b, a).cost

MatrixNodes(m) == {m.depot} \cup {m.requests[i].node : i \in 1..Len(m.requests)}

C10_PlacedFitsVehicle ==
    greedy.pc \in {"loop", "done"} =>
        \A k \in 1..Len(greedy.vehicles) :
            LET stops == greedy.routes[greedy.vehicles[k].id]
            IN \A i \in 1..Len(stops) : stops[i].demand <= greedy.vehicles[k].capacity

C10_Witness ==
    /\ greedy.pc = "done" /\ Len(greedy.vehicles) = MaxVehicles
    /\ \E k, j \in 1..Len(greedy.vehicles) :
          LET stops == greedy.routes[greedy.vehicles[k].id]
          IN /\ j < k
             /\ \E i \in 1..Len(stops) :
                   /\ stops[i].demand > greedy.vehicles[j].capacity
                   /\ stops[i].demand <= greedy.vehicles[k].capacity
(***************************************************************************)
(* Properties of the greedy planner.                                       *)
(***************************************************************************)
\* Some request is too large for every vehicle.
Unplaceable(vehicles, requests) ==
    \E i \in 1..Len(requests) :
        \A k \in 1..Len(vehicles) : requests[i].demand > vehicles[k].capacity

\* C11: build_plan raises the unplaceable-demand error exactly when some
\* request's demand exceeds the capacity of every vehicle, and it raises
\* before any route cost is computed and before any request is placed.
C11_RaisesIffUnplaceable ==
    /\ greedy.pc = "raised" =>
          /\ Unplaceable(greedy.vehicles, greedy.requests)
          /\ greedy.calls = 0 /\ greedy.iters = 0
          /\ greedy.chosen = <<>> /\ greedy.routes = <<>>
    /\ greedy.pc \in {"loop", "done"} =>
          ~Unplaceable(greedy.vehicles, greedy.requests)
    /\ greedy.pc = "check" => greedy.calls = 0
    /\ greedy.pc # "failed"

C11_Witness ==
    /\ greedy.pc = "raised" /\ Len(greedy.vehicles) = MaxVehicles
    /\ Len(greedy.requests) = MaxStops
    /\ \E k \in 1..Len(greedy.vehicles) : greedy.vehicles[k].capacity > 0
    /\ \E i \in 1..Len(greedy.requests) :
          ~NoVehicleFits(greedy.vehicles, greedy.requests[i].demand)
    /\ greedy.calls = 0

Count(seq, x) == Cardinality({i \in 1..Len(seq) : seq[i] = x})

\* How often request x stands in the lists of a dict of lists.
Held(lists, x) ==
    Cardinality({c \in UNION {{<<id, i>> : i \in 1..Len(lists[id])} : id \in DOMAIN lists} :
                    lists[c[1]][c[2]] = x})

HeldTotal(lists) ==
    Cardinality(UNION {{<<id, i>> : i \in 1..Len(lists[id])} : id \in DOMAIN lists})

\* C12: in the loop the placed requests and the remaining list partition the
\* input, each turn places one request, and a returned plan holds every
\* input request exactly as often as the input does, after len(requests)
\* turns.
C12_PlacedAndRemainingPartition ==
    greedy.pc \in {"loop", "done"} =>
        /\ \A i \in 1..Len(greedy.requests) :
              LET x == greedy.requests[i]
              IN Held(greedy.routes, x) + Count(greedy.remaining, x)
                    = Count(greedy.requests, x)
        /\ HeldTotal(greedy.routes) + Len(greedy.remaining) = Len(greedy.requests)
        /\ HeldTotal(greedy.routes) = greedy.iters
        /\ greedy.pc = "done" =>
              /\ greedy.remaining = <<>>
              /\ greedy.iters = Len(greedy.requests)

C12_Witness ==
    /\ greedy.pc = "done" /\ Len(greedy.requests) = MaxStops
    /\ greedy.requests[1] = greedy.requests[MaxStops]
    /\ Len(greedy.vehicles) = MaxVehicles
    /\ Held(greedy.routes, greedy.requests[1]) = MaxStops
    /\ greedy.iters = MaxStops

\* The cost of appending remaining request i to the route of vehicle k.
PickCost(g, p, k, i) ==
    _route_cost(g, p.vehicles[k], Append(p.routes[p.vehicles[k].id], p.remaining[i]),
                p.depot, TRUE)

\* The pairs <<vehicle, request>> of a vehicle and a remaining request
\* that it can carry, and the cheapest of them.
Fits(p) ==
    {c \in (1..Len(p.vehicles)) \X (1..Len(p.remaining)) :
        p.vehicles[c[1]].capacity >= p.remaining[c[2]].demand}

Cheapest(g, p) ==
    {c \in Fits(p) :
        \A d \in Fits(p) : Le(PickCost(g, p, c[1], c[2]), PickCost(g, p, d[1], d[2]))}

\* The first pair with the vehicles outside and the requests inside.
FirstByVehicle(S) ==
    CHOOSE c \in S : \A d \in S : c[1] < d[1] \/ (c[1] = d[1] /\ c[2] <= d[2])

\* The first pair with the requests outside and the vehicles inside.
FirstByRequest(S) ==
    CHOOSE c \in S : \A d \in S : c[2] < d[2] \/ (c[2] = d[2] /\ c[1] <= d[1])

Placed(p, q, c) ==
    LET pick == Last(q.chosen)
    IN /\ pick.vid = p.vehicles[c[1]].id
       /\ pick.req = p.remaining[c[2]]
       /\ q.routes[pick.vid] = Append(p.routes[pick.vid], pick.req)

\* C13: each turn of the construction loop appends a cheapest pair of a
\* remaining request and a vehicle that can carry it, and among the
\* cheapest pairs the first in (vehicle, request) order.
C13_CheapestFirstByVehicle ==
    [][(greedy.pc = "loop" /\ greedy.remaining # <<>>)
          => Placed(greedy, greedy', FirstByVehicle(Cheapest(graph, greedy)))]_vars

\* C14: build_plan returns no plan for an input with a vehicle of capacity
\* <= 0 or a request of demand <= 0.
C14_RejectsNonPositive ==
    greedy.pc = "done" =>
        /\ \A k \in 1..Len(greedy.vehicles) : greedy.vehicles[k].capacity > 0
        /\ \A i \in 1..Len(greedy.requests) : greedy.requests[i].demand > 0
(***************************************************************************)
(* Properties of the grouping local search.                                *)
(***************************************************************************)
\* C15: best_cost after a turn of the local search is at most best_cost
\* before it, whatever is drawn, and the returned makespan_estimate is at
\* most the cost of the initial random assignment.
C15_BestCostNeverRises ==
    /\ [][(group.pc = "loop" /\ group'.pc = "loop")
            => Le(group'.best_cost, group.best_cost)]_vars
    /\ [](group.pc = "loop" => Le(group.best_cost, group.init_cost))
    /\ []((group.pc = "done" /\ group.requests # <<>>)
            => Le(group.makespan_estimate, group.init_cost))

C15_Witness ==
    /\ group.pc = "done" /\ group.it = MaxIters
    /\ Lt(group.makespan_estimate, group.init_cost)
    /\ Lt(group.best_cost, group.cand_cost)
    /\ group.best_cost.big = 0

\* Two lists hold the same requests, each as often.
SameRequests(a, b) ==
    /\ Len(a) = Len(b)
    /\ \A i \in 1..Len(a) : Count(a, a[i]) = Count(b, a[i])

\* C16: with iterations = 0 and a request list that is not empty, no move
\* is applied: the returned makespan_estimate is evaluate_state of the
\* initial random assignment and every vehicle's returned route holds the
\* requests the initial assignment gave it.
C16_ZeroIterationsReturnsInitial ==
    (group.pc = "done" /\ group.iterations = 0 /\ group.requests # <<>>) =>
        /\ group.it = 0 /\ group.candidate = <<>>
        /\ group.best_state = group.init_state
        /\ group.makespan_estimate
              = evaluate_state(group.depot, group.vehicles, group.init_state,
                               precompute_distances(graph, group.depot, group.requests))
        /\ DOMAIN group.routes = DOMAIN group.init_state
        /\ \A id \in DOMAIN group.routes :
              SameRequests(group.routes[id], group.init_state[id])

C16_Witness ==
    /\ group.pc = "done" /\ group.iterations = 0
    /\ Len(group.requests) = MaxStops /\ Len(group.vehicles) = MaxVehicles
    /\ \E id \in DOMAIN group.routes :
          /\ Len(group.routes[id]) = MaxStops
          /\ group.routes[id] # group.init_state[id]
    /\ group.makespan_estimate = group.init_cost
    /\ Lt(Fin(0), group.makespan_estimate)

\* C19: in each turn of the local search the candidate becomes the current
\* state exactly when its objective is at most the current objective, ties
\* included, best_state and best_cost change exactly when its objective is
\* below best_cost, and a rejected candidate leaves all four unchanged.
C19_AcceptOnTieBestOnStrict ==
    [][(group.pc = "loop" /\ group'.pc = "loop") =>
         LET cand == group'.candidate
             cost == group'.cand_cost
         IN /\ cost = evaluate_state(group.depot, group.vehicles, cand, group.dist)
            /\ Le(cost, group.current_cost) =>
                  (group'.current_state = cand /\ group'.current_cost = cost)
            /\ ~Le(cost, group.current_cost) =>
                  /\ group'.current_state = group.current_state
                  /\ group'.current_cost = group.current_cost
                  /\ group'.best_state = group.best_state
                  /\ group'.best_cost = group.best_cost
            /\ Lt(cost, group.best_cost) =>
                  (group'.best_state = cand /\ group'.best_cost = cost)
            /\ ~Lt(cost, group.best_cost) =>
                  (group'.best_state = group.best_state
                     /\ group'.best_cost = group.best_cost)]_vars

C19_Witness ==
    /\ group.pc = "loop" /\ group.it = 1
    /\ group.cand_cost = group.init_cost
    /\ group.candidate # group.init_state
    /\ group.current_state = group.candidate
    /\ group.best_state = group.init_state
    /\ group.best_cost.big = 0 /\ Lt(Fin(0), group.best_cost)

\* A dict of lists gives every input request to exactly one vehicle.
Assigns(p, lists) ==
    /\ DOMAIN lists = {p.vehicles[k].id : k \in 1..Len(p.vehicles)}
    /\ HeldTotal(lists) = Len(p.requests)
    /\ \A i \in 1..Len(p.requests) :
          Held(lists, p.requests[i]) = Count(p.requests, p.requests[i])

\* C20: the initial, current, candidate and best state of the local search
\* and the returned plan give every input request to exactly one vehicle,
\* and keep the set of vehicle ids.
C20_EveryRequestOnOneVehicle ==
    /\ group.pc \in {"loop", "done"} /\ group.requests # <<>> =>
          /\ Assigns(group, group.init_state)
          /\ Assigns(group, group.current_state)
          /\ Assigns(group, group.best_state)
          /\ group.it > 0 => Assigns(group, group.candidate)
    /\ group.pc = "done" => Assigns(group, group.routes)

C20_Witness ==
    /\ group.pc = "done" /\ group.it = MaxIters
    /\ Len(group.requests) = MaxStops
    /\ group.requests[1] # group.requests[MaxStops]
    /\ Cardinality(DOMAIN group.routes) = MaxVehicles
    /\ group.best_state # group.init_state
    /\ group.current_state # group.best_state
    /\ \A id \in DOMAIN group.routes : group.routes[id] # <<>>

\* The random sources a simulator built with this argument may draw from.
Sources(rng_arg) ==
    IF rng_arg = <<>> THEN {Random(seed) : seed \in Seeds} ELSE {rng_arg[1]}

\* A second simulate_once with the same arguments, drawing from rng.
Again(g, s, rng) ==
    SimRun(g, SimNew(SimCall(s.rng_arg, s.plan, s.vehicles, s.return_to_depot), rng))

\* C17: two runs of simulate_once with the same graph, plan, vehicles and
\* random source argument return the same vehicle_times, total_time and
\* max_time: every draw comes from the source passed in, none from a source
\* the simulator made itself.
C17_SameSeedSameResult ==
    sim.pc = "done" =>
        \A rng \in Sources(sim.rng_arg) :
            LET again == Again(graph, sim, rng)
            IN /\ again.vehicle_times = sim.vehicle_times
               /\ again.total_time = sim.total_time
               /\ again.max_time = sim.max_time

\* The legs of a vehicle's walk: start -> each stop in order, then -> depot
\* when the return is requested.
SimLegs(vehicle, route, depot, return_to_depot) ==
    LET legs == Chain(vehicle.start_node, route.stops, depot)
    IN IF return_to_depot THEN legs ELSE SubSeq(legs, 1, Len(route.stops))

\* C18: in the result, every route has a time, which is +infinity exactly
\* when some leg of the vehicle's walk has no path; total_time is the sum and
\* max_time the maximum of the times (0 with no routes), so both are
\* +infinity as soon as one time is.
C18_InfiniteIffLegUnreachable ==
    sim.pc = "done" =>
        LET routes == sim.plan.routes
            times == sim.vehicle_times
        IN /\ Len(times) = Len(routes)
           /\ \A k \in 1..Len(routes) :
                LET legs == SimLegs(v_index(sim.vehicles, routes[k].vehicle_id),
                                    routes[k], sim.plan.depot, sim.return_to_depot)
                IN /\ times[k].vid = routes[k].vehicle_id
                   /\ times[k].t.inf <=>
                          \E i \in 1..Len(legs) : ~HasRoad(graph, legs[i])
           /\ sim.total_time = SumTimes(times, 1)
           /\ \A k \in 1..Len(times) : Le(times[k].t, sim.max_time)
           /\ IF times = <<>> THEN sim.max_time = Fin(0)
              ELSE \E k \in 1..Len(times) : times[k].t = sim.max_time
           /\ (\E k \in 1..Len(times) : times[k].t.inf) =>
                  sim.total_time.inf /\ sim.max_time.inf

\* The remaining-capacity counter of a route_time walk is negative at some
\* point from m on.
RECURSIVE Dips(_)
Dips(m) ==
    \/ m.cap_left < 0
    \/ m.pc # "done" /\ Dips(TimeStep(EmptyGraph(<<>>), m))

\* C23: in the plan returned by the grouping planner, the route_time walk of
\* every vehicle's route never drives the remaining capacity below zero, and
\* no request stands on a vehicle whose capacity is below its demand when
\* some vehicle of the fleet could carry it.
C23_TripWithinCapacity ==
    group.pc = "done" =>
        \A k \in 1..Len(group.vehicles) :
            LET v == group.vehicles[k]
                stops == group.routes[v.id]
            IN /\ ~Dips([TimeCall(group.depot, stops, <<>>, v.capacity)
                            EXCEPT !.pc = "entry", !.dist = group.dist])
               /\ \A i \in 1..Len(stops) :
                     (\E w \in 1..Len(group.vehicles) :
                          group.vehicles[w].capacity >= stops[i].demand)
                     => v.capacity >= stops[i].demand

\* C24: at the start of the local search and after every turn, and when the
\* plan is returned, best_cost equals current_cost.
C24_BestCostIsCurrentCost ==
    group.pc \in {"loop", "done"} /\ group.requests # <<>>
        => group.best_cost = group.current_cost

C24_Witness ==
    /\ group.pc = "loop" /\ group.it = MaxIters
    /\ group.best_state # group.current_state
    /\ group.best_state # group.init_state
    /\ Lt(group.best_cost, group.init_cost)
    /\ group.best_cost = group.current_cost

\* The objective recomputed on the returned plan: the largest route_time of
\* a vehicle over its returned stops, from vehicle k on.
RECURSIVE Recomputed(_, _, _)
Recomputed(p, k, makespan) ==
    IF k > Len(p.vehicles) THEN makespan
    ELSE LET v == p.vehicles[k]
         IN Recomputed(p, k + 1,
                       Max(makespan,
                           route_time(p.depot, p.routes[v.id], p.dist, v.capacity)))

\* C25: the returned makespan_estimate is the largest route_time of a
\* vehicle over the stop order the plan returns for it.
C25_EstimateIsPlanObjective ==
    group.pc = "done" => group.makespan_estimate = Recomputed(group, 1, Fin(0))

\* The A* costs of the legs of a walk, summed.
RECURSIVE LegCosts(_, _, _)
LegCosts(g, legs, i) ==
    IF i > Len(legs) THEN Fin(0)
    ELSE Add(Leg(g, legs[i][1], legs[i][2]).cost, LegCosts(g, legs, i + 1))

\* C26: with zero noise the time of every vehicle whose legs all have a path
\* is the sum of the A* costs of its legs start -> stops in order -> depot,
\* in the simulator's tenths: on every hop the edge sampled has the base
\* travel time A* charged, parallel edges included.
C26_SampledEdgeIsChargedEdge ==
    (sim.pc = "done" /\ sim.rng.seed = 0) =>
        \A k \in 1..Len(sim.plan.routes) :
            LET route == sim.plan.routes[k]
                legs == SimLegs(v_index(sim.vehicles, route.vehicle_id), route,
                                sim.plan.depot, sim.return_to_depot)
                charged == LegCosts(graph, legs, 1)
            IN (\A i \in 1..Len(legs) : Leg(graph, legs[i][1], legs[i][2]).path # NoPath)
               => sim.vehicle_times[k].t = Fin(Tenths * charged.val)

\* new is given with the request at position i of the list of from_vid taken
\* out and put at the end of the list of to_vid.
Transfer(given, new, from_vid, i, to_vid) ==
    new = [given EXCEPT ![from_vid] = RemoveAt(@, i),
                        ![to_vid] = Append(@, given[from_vid][i])]

\* C21: random_move leaves the state it is given as it was; the state it
\* returns equals the given state when the source vehicle holds nothing or
\* there is only one vehicle, and otherwise is the given state with one
\* request taken from the source vehicle and added to another vehicle.
C21_MoveIsNoOpOrOneTransfer ==
    pure.pc = "moved" =>
        LET from_vid == pure.vehicles[pure.from].id
        IN /\ pure.state = pure.given
           /\ DOMAIN pure.new_state = DOMAIN pure.given
           /\ IF pure.given[from_vid] = <<>> \/ Cardinality(DOMAIN pure.given) = 1
              THEN pure.new_state = pure.given
              ELSE \E to_vid \in DOMAIN pure.given \ {from_vid} :
                     \E i \in 1..Len(pure.given[from_vid]) :
                        Transfer(pure.given, pure.new_state, from_vid, i, to_vid)

\* C22: evaluate_state returns the same value on two states that give every
\* vehicle the same requests, whatever the order of the lists.
C22_ObjectiveIgnoresListOrder ==
    (/\ pure.pc = "evaluated"
     /\ \A id \in DOMAIN pure.state : SameRequests(pure.state[id], pure.other[id]))
        => pure.cost = pure.other_cost

====
